---- MODULE Spec2Model ----
(***************************************************************************)
(* A model of src/src/gl-util.ts: the object returned by initGL(canvas).   *)
(* The state is the closure state of initGL (currentProgram, currentVao,   *)
(* the memoized WeakMap) together with the part of the WebGL2 context the  *)
(* helpers act on (active program, bound vertex array, buffer bindings,    *)
(* live shader / buffer / texture objects).  Every exported helper is one  *)
(* action; the helpers they call are operators on small state records.     *)
(***************************************************************************)
EXTENDS Integers, Sequences, FiniteSets, TLC

(* ------------------------------ bounds -------------------------------- *)
MaxPrograms == 2
MaxVaos == 2

(* ------------------------------ values -------------------------------- *)
\* Every handle is a pair <<kind, n>>; null and undefined have the same shape.
Null == <<"null", 0>>
Undefined == <<"undefined", 0>>
None == "none"
Handle(kind, n) == <<kind, n>>

UniformNames == {"u_color", "u_time"}
AttribNames == {"a_pos", "a_uv"}
\* What gl.linkProgram can make of a shader pair: a program that did not
\* link (it has no active names), or a linked program with the active
\* uniforms and attributes the pair declares.
ProgramInterfaces ==
  { [linked |-> FALSE, uniforms |-> {}, attribs |-> {}],
    [linked |-> TRUE, uniforms |-> {"u_color"}, attribs |-> {"a_pos"}],
    [linked |-> TRUE, uniforms |-> {"u_color", "u_time"}, attribs |-> {"a_pos", "a_uv"}] }

VARIABLES
  currentProgram,   \* let currentProgram: WebGLProgram      (closure)
  currentVao,       \* let currentVao: WebGLVertexArrayObject (closure)
  glProgram,        \* context: CURRENT_PROGRAM
  glVao,            \* context: VERTEX_ARRAY_BINDING
  programs,         \* context: program objects, handle n -> link result
  nVaos,            \* context: number of vertex arrays created
  op,               \* the last call of the API and its arguments
  ret,              \* what the last call returned
  threw,            \* the error the last call threw, or None
  warned,           \* console.warn messages of the last call
  calls             \* native context calls issued by the last call

bindVars == <<currentProgram, currentVao, glProgram, glVao, programs, nVaos>>
obsVars == <<op, ret, threw, warned, calls>>

Native(fn, arg) == [fn |-> fn, arg |-> arg]
\* A returned object literal, and a returned Record<string, GLBuffer> given
\* by its values in key order, as values of ret; the fields or the values
\* are the second component.
Object(fields) == <<"object", fields>>
Record(values) == <<"record", values>>
NativeFns(cs) == {cs[i].fn : i \in 1..Len(cs)}

ProgramHandles == {Handle("program", n) : n \in 1..Len(programs)}
VaoHandles == {Handle("vao", n) : n \in 1..nVaos}

(* ------------------------- context lookups ---------------------------- *)
\* gl.getUniformLocation(program, name): a location object for an active
\* uniform of the program, null otherwise.
gl_getUniformLocation(program, name) ==
  IF name \in programs[program[2]].uniforms
    THEN Handle("location", program[2]) \o <<name>>
    ELSE Null

\* gl.getAttribLocation(program, name): the index of an active attribute,
\* -1 otherwise.
AttribIndex(name) == IF name = "a_pos" THEN 0 ELSE 1
gl_getAttribLocation(program, name) ==
  IF name \in programs[program[2]].attribs THEN AttribIndex(name) ELSE -1

(* ------------------- program and vertex array binding ----------------- *)
\* gl.useProgram: a program that is not linked is an INVALID_OPERATION that
\* leaves CURRENT_PROGRAM as it was.
gl_useProgram(progs, ctx, program) ==
  IF progs[program[2]].linked THEN program ELSE ctx

\* useProgram: lines 87-91, with progs the context's program objects.  The
\* result holds the new tracked and context values and the native calls.
useProgram(progs, cur, ctx, program) ==
  IF program # cur
    THEN [currentProgram |-> program,
          glProgram |-> gl_useProgram(progs, ctx, program),
          calls |-> <<Native("useProgram", program)>>]
    ELSE [currentProgram |-> cur, glProgram |-> ctx, calls |-> <<>>]

\* useVao: lines 93-97.
useVao(cur, ctx, vao) ==
  IF vao # cur
    THEN [currentVao |-> vao, glVao |-> vao,
          calls |-> <<Native("bindVertexArray", vao)>>]
    ELSE [currentVao |-> cur, glVao |-> ctx, calls |-> <<>>]

\* createVertexArray: lines 238-242.  Binds the new vertex array in the
\* context; the tracked currentVao is not assigned.
createVertexArray(cur, ctx, vao) ==
  [currentVao |-> cur, glVao |-> vao,
   calls |-> <<Native("createVertexArray", vao), Native("bindVertexArray", vao)>>]

\* A get trap that throws for a missing uniform instead of warning.
uniformsThrowing(cur, name) ==
  IF cur = Undefined
    THEN [ret |-> Undefined, threw |-> "TypeError", warned |-> <<>>]
    ELSE LET uniform == gl_getUniformLocation(cur, name) IN
         IF uniform = Null
           THEN [ret |-> Undefined, threw |-> "Uniform not found or not in use:",
                 warned |-> <<>>]
           ELSE [ret |-> uniform, threw |-> None, warned |-> <<>>]

\* The uniforms proxy's get trap: lines 66-74.  Passing undefined where the
\* context expects a WebGLProgram is a TypeError of the binding layer.
uniforms(cur, name) ==
  IF cur = Undefined
    THEN [ret |-> Undefined, threw |-> "TypeError", warned |-> <<>>]
    ELSE LET uniform == gl_getUniformLocation(cur, name) IN
         [ret |-> uniform, threw |-> None,
          warned |-> IF uniform = Null
                       THEN <<"Uniform not found or not in use:">>
                       ELSE <<>>]

(* ------------------------------ actions ------------------------------- *)
CreateProgram ==
  /\ Len(programs) < MaxPrograms
  /\ \E iface \in ProgramInterfaces :
       LET program == Handle("program", Len(programs) + 1)
           u == useProgram(Append(programs, iface), currentProgram,
                           glProgram, program) IN
       /\ programs' = Append(programs, iface)
       /\ currentProgram' = u.currentProgram
       /\ glProgram' = u.glProgram
       /\ op' = [name |-> "createProgram", program |-> program]
       /\ ret' = program
       /\ calls' = <<Native("createProgram", program),
                     Native("linkProgram", program)>> \o u.calls
  /\ threw' = None
  /\ warned' = <<>>
  /\ UNCHANGED <<currentVao, glVao, nVaos>>

UseProgram ==
  \E program \in ProgramHandles :
    LET u == useProgram(programs, currentProgram, glProgram, program) IN
    /\ currentProgram' = u.currentProgram
    /\ glProgram' = u.glProgram
    /\ op' = [name |-> "useProgram", program |-> program]
    /\ ret' = Undefined
    /\ calls' = u.calls
    /\ threw' = None
    /\ warned' = <<>>
    /\ UNCHANGED <<currentVao, glVao, programs, nVaos>>

UseVao ==
  \E vao \in VaoHandles :
    LET v == useVao(currentVao, glVao, vao) IN
    /\ currentVao' = v.currentVao
    /\ glVao' = v.glVao
    /\ op' = [name |-> "useVao", vao |-> vao]
    /\ ret' = Undefined
    /\ calls' = v.calls
    /\ threw' = None
    /\ warned' = <<>>
    /\ UNCHANGED <<currentProgram, glProgram, programs, nVaos>>

\* use: lines 99-102.
Use ==
  \E program \in ProgramHandles, vao \in VaoHandles :
    LET u == useProgram(programs, currentProgram, glProgram, program)
        v == useVao(currentVao, glVao, vao) IN
    /\ currentProgram' = u.currentProgram
    /\ glProgram' = u.glProgram
    /\ currentVao' = v.currentVao
    /\ glVao' = v.glVao
    /\ op' = [name |-> "use", program |-> program, vao |-> vao]
    /\ ret' = Undefined
    /\ calls' = u.calls \o v.calls
    /\ threw' = None
    /\ warned' = <<>>
    /\ UNCHANGED <<programs, nVaos>>

CreateVertexArray ==
  /\ nVaos < MaxVaos
  /\ LET vao == Handle("vao", nVaos + 1)
         v == createVertexArray(currentVao, glVao, vao) IN
     /\ nVaos' = nVaos + 1
     /\ currentVao' = v.currentVao
     /\ glVao' = v.glVao
     /\ op' = [name |-> "createVertexArray", vao |-> vao]
     /\ ret' = vao
     /\ calls' = v.calls
  /\ threw' = None
  /\ warned' = <<>>
  /\ UNCHANGED <<currentProgram, glProgram, programs>>

Uniforms ==
  \E name \in UniformNames :
    LET u == uniforms(currentProgram, name) IN
    /\ op' = [name |-> "uniforms", uname |-> name]
    /\ ret' = u.ret
    /\ threw' = u.threw
    /\ warned' = u.warned
    /\ calls' = IF u.threw = None
                  THEN <<Native("getUniformLocation", currentProgram)>>
                  ELSE <<>>
    /\ UNCHANGED bindVars

(* ============================== shaders =============================== *)
MaxShaders == 5

VARIABLES
  shaders,          \* context: shader objects, handle n -> [type, deleted]
  held,             \* shader pairs createShaders returned to a caller
  released,         \* the pairs of held that deleteShaders was called on
  direct,           \* handles made by a caller's own createShader calls
  singles           \* the handles of direct that were returned to the caller

shaderVars == <<shaders, held, released, direct, singles>>

ShaderTypes == {"VERTEX_SHADER", "FRAGMENT_SHADER"}

\* Shader sources are short texts over four characters: " " (white space),
\* "m" (valid in both stages), "p" (valid in a vertex shader only), "c" (valid
\* in a fragment shader only) and "#" (a syntax error in both).
Sources == { <<" ", "m">>, <<"p">>, <<"c", " ">>, <<"#">> }

RECURSIVE TrimStart(_)
TrimStart(s) ==
  IF s # <<>> /\ Head(s) = " " THEN TrimStart(Tail(s)) ELSE s
RECURSIVE TrimEnd(_)
TrimEnd(s) ==
  IF s # <<>> /\ s[Len(s)] = " " THEN TrimEnd(SubSeq(s, 1, Len(s) - 1)) ELSE s
\* String.prototype.trim, line 106.
Trim(s) == TrimEnd(TrimStart(s))

\* gl.compileShader / gl.getShaderInfoLog: the first offending character of
\* the source the shader was given decides the diagnostic, "" when it compiles.
BadChar(type, ch) ==
  \/ ch = "#"
  \/ type = "VERTEX_SHADER" /\ ch = "c"
  \/ type = "FRAGMENT_SHADER" /\ ch = "p"
gl_getShaderInfoLog(type, text) ==
  LET bad == {i \in 1..Len(text) : BadChar(type, text[i])} IN
  IF text = <<>> THEN "ERROR: missing main"
  ELSE IF bad = {} THEN ""
  ELSE LET i == CHOOSE j \in bad : \A k \in bad : j <= k IN
       IF text[i] = "#" THEN "ERROR: syntax error"
       ELSE IF text[i] = "c" THEN "ERROR: gl_FragColor undeclared"
       ELSE "ERROR: gl_Position undeclared"
CompileStatus(type, text) == gl_getShaderInfoLog(type, text) = ""

LiveShaders == {Handle("shader", n) : n \in {k \in 1..Len(shaders) : ~shaders[k].deleted}}

\* A createShader that does not read COMPILE_STATUS.
createShaderUnchecked(shs, type, src) ==
  [shaders |-> Append(shs, [type |-> type, deleted |-> FALSE]),
   ret |-> Handle("shader", Len(shs) + 1), threw |-> None]

\* createShader: lines 104-110, on the shader table shs.
createShader(shs, type, src) ==
  LET shader == Handle("shader", Len(shs) + 1)
      text == Trim(src)
      made == Append(shs, [type |-> type, deleted |-> FALSE]) IN
  IF ~CompileStatus(type, text)
    THEN [shaders |-> made, ret |-> Undefined,
          threw |-> gl_getShaderInfoLog(type, text)]
    ELSE [shaders |-> made, ret |-> shader, threw |-> None]

\* createShaders: lines 112-117.  The object literal evaluates the vertex
\* shader first; an exception leaves the literal unbuilt.
createShaders(shs, src) ==
  LET v == createShader(shs, "VERTEX_SHADER", src.vertex) IN
  IF v.threw # None
    THEN [shaders |-> v.shaders, ret |-> Undefined, threw |-> v.threw]
    ELSE LET f == createShader(v.shaders, "FRAGMENT_SHADER", src.fragment) IN
         IF f.threw # None
           THEN [shaders |-> f.shaders, ret |-> Undefined, threw |-> f.threw]
           ELSE [shaders |-> f.shaders,
                 ret |-> [vertex |-> v.ret, fragment |-> f.ret],
                 threw |-> None]

\* gl.deleteShader: a deleted shader stays deleted.
gl_deleteShader(shs, shader) == [shs EXCEPT ![shader[2]].deleted = TRUE]

\* deleteShaders: lines 119-122.
deleteShaders(shs, pair) ==
  gl_deleteShader(gl_deleteShader(shs, pair.vertex), pair.fragment)

\* The exported createShader, called by a caller directly.
CreateShader ==
  /\ Len(shaders) + 1 <= MaxShaders
  /\ \E type \in ShaderTypes, src \in Sources :
       LET r == createShader(shaders, type, src) IN
       /\ shaders' = r.shaders
       /\ direct' = direct \cup {Handle("shader", Len(shaders) + 1)}
       /\ singles' = IF r.threw = None THEN singles \cup {r.ret} ELSE singles
       /\ op' = [name |-> "createShader", type |-> type, src |-> src,
                 before |-> Len(shaders)]
       /\ ret' = r.ret
       /\ threw' = r.threw
  /\ warned' = <<>>
  /\ calls' = <<>>
  /\ UNCHANGED <<held, released>>

CreateShaders ==
  /\ Len(shaders) + 2 <= MaxShaders
  /\ \E sv \in Sources, sf \in Sources :
       LET src == [vertex |-> sv, fragment |-> sf]
           r == createShaders(shaders, src) IN
       /\ shaders' = r.shaders
       /\ held' = IF r.threw = None THEN held \cup {r.ret} ELSE held
       /\ op' = [name |-> "createShaders", src |-> src, before |-> Len(shaders)]
       /\ ret' = IF r.threw = None THEN Object(r.ret) ELSE Undefined
       /\ threw' = r.threw
  /\ warned' = <<>>
  /\ calls' = <<>>
  /\ UNCHANGED <<released, direct, singles>>

\* The pairs a caller can hand to deleteShaders: the ones createShaders
\* returned, and the ones put together from createShader's results.
GLShaders ==
  held \cup
  { [vertex |-> v, fragment |-> f] :
      v \in {h \in singles : shaders[h[2]].type = "VERTEX_SHADER"},
      f \in {h \in singles : shaders[h[2]].type = "FRAGMENT_SHADER"} }

DeleteShaders ==
  \E pair \in GLShaders :
    /\ shaders' = deleteShaders(shaders, pair)
    /\ released' = released \cup ({pair} \cap held)
    /\ op' = [name |-> "deleteShaders", pair |-> pair]
    /\ ret' = Undefined
    /\ threw' = None
    /\ warned' = <<>>
    /\ calls' = <<Native("deleteShader", pair.vertex),
                  Native("deleteShader", pair.fragment)>>
    /\ UNCHANGED <<held, direct, singles>>

(* ======================= buffers and textures ======================== *)
MaxBuffers == 2
MaxAttribPrograms == 1
MaxTextures == 1
MaxDisposals == 2
DataLen == 160

VARIABLES
  buffers,          \* context: buffer objects, handle n -> [deleted, deletes, target]
  bound,            \* context: buffer binding of each target
  attribs,          \* GLBuffer descriptors addVertexAttribs returned
  attribDisposals,  \* per descriptor: how often its dispose() was invoked
  returned,         \* caller: buffer handles addVertexAttrib has returned
  disposables,      \* caller: Disposables useBuffer / useArrayBuffer returned
  textures,         \* context: texture objects, handle n -> [deleted, deletes]
  texBound,         \* context: texture binding of each target, per texture unit
  activeTexture,    \* context: the active texture unit
  samplers,         \* context: uniform location -> value set by uniform1i
  texDescs,         \* GLTexture descriptors createTexture returned
  texDisposals      \* per descriptor: how often its dispose() was invoked

bufferVars == <<buffers, bound, attribs, attribDisposals, returned, disposables>>
textureVars == <<textures, texBound, activeTexture, samplers, texDescs, texDisposals>>

BufferTargets == {"ARRAY_BUFFER", "ELEMENT_ARRAY_BUFFER"}
TextureTargets == {"TEXTURE_2D"}
\* The texture units activateTextures reaches: gl.TEXTURE0 + i, for i below
\* the number of descriptors.
TextureUnits == 0..(MaxTextures - 1)
\* The typed arrays a caller keeps vertex data in.
Payload == Handle("Float32Array", DataLen)
IntPayload == Handle("Int32Array", DataLen)

\* attrib(size, data, divisor): lines 292-321, by the values the closure it
\* returns has captured.
attrib(size, data, divisor) ==
  [closure |-> "attrib", size |-> size, data |-> data, divisor |-> divisor]
\* An attribute function the caller wrote, which returns data and makes no
\* context call: the GLAttribFn parameter of line 139.
CallerAttribFn(data) ==
  [closure |-> "caller", size |-> 0, data |-> data, divisor |-> 0]
\* intPointerTypes: line 290.
intPointerTypes == {"Int32Array"}
\* The attribute functions a caller passes to addVertexAttrib, and those
\* passed in the entries of addVertexAttribs.
AttribFns ==
  {attrib(2, Payload, 0), attrib(2, IntPayload, 1), CallerAttribFn(Payload)}
EntryAttribFns == {attrib(2, Payload, 0), CallerAttribFn(Payload)}

(* --------------------------- context calls ---------------------------- *)
gl_createBuffer(ctx) ==
  [ctx EXCEPT !.buffers =
     Append(@, [deleted |-> FALSE, deletes |-> 0, target |-> "none"])]

\* gl.bindBuffer: binding a deleted buffer, or a buffer whose first binding
\* was to the other of ARRAY_BUFFER and ELEMENT_ARRAY_BUFFER, is an
\* INVALID_OPERATION that leaves the binding as it was.  The first binding
\* fixes the buffer's target.
gl_bindBuffer(ctx, target, buffer) ==
  IF buffer = Null
    THEN [ctx EXCEPT !.bound[target] = Null]
  ELSE IF \/ ctx.buffers[buffer[2]].deleted
          \/ ctx.buffers[buffer[2]].target \notin {"none", target}
    THEN ctx
  ELSE [ctx EXCEPT !.bound[target] = buffer,
                   !.buffers[buffer[2]].target = target]

\* gl.deleteBuffer: the first call deletes the object and resets every
\* binding that holds it; a later call has no effect on the context.
gl_deleteBuffer(ctx, buffer) ==
  [buffers |-> [ctx.buffers EXCEPT ![buffer[2]].deleted = TRUE,
                                   ![buffer[2]].deletes = @ + 1],
   bound |-> [t \in BufferTargets |->
                IF ctx.bound[t] = buffer THEN Null ELSE ctx.bound[t]]]

gl_createTexture(tctx) ==
  [tctx EXCEPT !.textures = Append(@, [deleted |-> FALSE, deletes |-> 0])]

gl_activeTexture(tctx, unit) == [tctx EXCEPT !.activeTexture = unit]

\* gl.bindTexture binds on the active unit; a deleted texture is an
\* INVALID_OPERATION.
gl_bindTexture(tctx, target, texture) ==
  IF texture # Null /\ tctx.textures[texture[2]].deleted
    THEN tctx
    ELSE [tctx EXCEPT !.texBound[tctx.activeTexture][target] = texture]

\* gl.uniform1i: a null location is ignored; a location of a program other
\* than the one in use in the context is an INVALID_OPERATION.
gl_uniform1i(tctx, location, v) ==
  IF location = Null \/ glProgram = Null THEN tctx
  ELSE IF location[2] # glProgram[2] THEN tctx
  ELSE [tctx EXCEPT !.samplers = (location :> v) @@ tctx.samplers]

gl_deleteTexture(tctx, texture) ==
  [tctx EXCEPT
     !.textures[texture[2]] = [deleted |-> TRUE, deletes |-> @.deletes + 1],
     !.texBound = [u \in TextureUnits |-> [t \in TextureTargets |->
                     IF tctx.texBound[u][t] = texture
                       THEN Null ELSE tctx.texBound[u][t]]]]

(* ------------------------------ helpers ------------------------------- *)
\* bufferDisposables: lines 182-188.  Only gl.ARRAY_BUFFER has an entry.
bufferDisposables(target) ==
  IF target = "ARRAY_BUFFER" THEN "unbindArrayBuffer" ELSE "undefined"

\* [Symbol.dispose]() at the end of a `using` scope: lines 184-186; a
\* `using` of undefined disposes nothing.
SymbolDispose(ctx, disposable) ==
  IF disposable = "undefined" THEN ctx ELSE gl_bindBuffer(ctx, "ARRAY_BUFFER", Null)
SymbolDisposeCalls(disposable) ==
  IF disposable = "undefined" THEN <<>> ELSE <<Native("bindBuffer", Null)>>

\* useBuffer: lines 190-193.
useBuffer(ctx, target, buffer) ==
  [ctx |-> gl_bindBuffer(ctx, target, buffer),
   disposable |-> bufferDisposables(target)]

\* useArrayBuffer: lines 195-198.
useArrayBuffer(ctx, buffer) ==
  [ctx |-> gl_bindBuffer(ctx, "ARRAY_BUFFER", buffer),
   disposable |-> bufferDisposables("ARRAY_BUFFER")]

\* setBuffer: lines 244-251.  The buffer stays bound.
setBuffer(ctx, d) ==
  [ctx |-> gl_bindBuffer(ctx, d.target, d.buffer),
   calls |-> <<Native("bindBuffer", d.buffer), Native("bufferData", d.buffer)>>]

\* A bindVertexAttribBuffer without the test for location -1.
bindVertexAttribBufferUnchecked(ctx, target, buffer, name) ==
  IF currentProgram = Undefined
    THEN [ctx |-> ctx, ret |-> Undefined, threw |-> "TypeError",
          warned |-> <<>>, calls |-> <<>>]
    ELSE LET index == gl_getAttribLocation(currentProgram, name) IN
         [ctx |-> gl_bindBuffer(ctx, target, buffer),
          ret |-> Handle("index", index), threw |-> None, warned |-> <<>>,
          calls |-> <<Native("getAttribLocation", currentProgram),
                      Native("bindBuffer", buffer),
                      Native("bindAttribLocation", currentProgram),
                      Native("enableVertexAttribArray", Handle("index", index))>>]

\* bindVertexAttribBuffer: lines 124-134.
bindVertexAttribBuffer(ctx, target, buffer, name) ==
  IF currentProgram = Undefined
    THEN [ctx |-> ctx, ret |-> Undefined, threw |-> "TypeError",
          warned |-> <<>>, calls |-> <<>>]
    ELSE LET index == gl_getAttribLocation(currentProgram, name) IN
         IF index = -1
           THEN [ctx |-> ctx, ret |-> Undefined, threw |-> None,
                 warned |-> <<"Attribute not found or not in use:">>,
                 calls |-> <<Native("getAttribLocation", currentProgram)>>]
           ELSE [ctx |-> gl_bindBuffer(ctx, target, buffer),
                 ret |-> Handle("index", index), threw |-> None,
                 warned |-> <<>>,
                 calls |-> <<Native("getAttribLocation", currentProgram),
                             Native("bindBuffer", buffer),
                             Native("bindAttribLocation", currentProgram),
                             Native("enableVertexAttribArray", Handle("index", index))>>]

\* A call attribFn(index, target, usage) of line 146.  For the closure attrib
\* returned it is lines 306-320, where gl.bufferData acts on the buffer bound
\* to target.
GLAttribFn(fn, ctx, index, target) ==
  IF fn.closure = "caller" THEN [data |-> fn.data, calls |-> <<>>]
  ELSE
  [data |-> fn.data,
   calls |-> <<Native("bufferData", ctx.bound[target]),
               Native("bufferData", ctx.bound[target])>>
             \o (IF fn.divisor # 0
                   THEN <<Native("vertexAttribDivisor", index)>> ELSE <<>>)
             \o (IF fn.data[1] \in intPointerTypes
                   THEN <<Native("vertexAttribIPointer", index)>>
                   ELSE <<Native("vertexAttribPointer", index)>>)]

\* addVertexAttrib: lines 136-148.
addVertexAttrib(ctx, target, name, attribFn) ==
  LET buffer == Handle("buffer", Len(ctx.buffers) + 1)
      u == useBuffer(gl_createBuffer(ctx), target, buffer)
      b == bindVertexAttribBuffer(u.ctx, target, buffer, name)
      pre == <<Native("createBuffer", buffer), Native("bindBuffer", buffer)>>
      post == SymbolDisposeCalls(u.disposable)
      a == GLAttribFn(attribFn, b.ctx, b.ret, target)
      out == SymbolDispose(b.ctx, u.disposable) IN
  IF b.threw # None
    THEN [ctx |-> out, ret |-> Undefined, threw |-> b.threw,
          warned |-> b.warned, calls |-> pre \o b.calls \o post]
  ELSE IF b.ret = Undefined
    THEN [ctx |-> out, ret |-> [buffer |-> buffer], threw |-> None,
          warned |-> b.warned, calls |-> pre \o b.calls \o post]
  ELSE [ctx |-> out, ret |-> [buffer |-> buffer, data |-> a.data],
        threw |-> None, warned |-> b.warned,
        calls |-> pre \o b.calls \o <<Native("attribFn", b.ret)>> \o a.calls
                  \o post]

\* The descriptor of lines 168-177; dispose is the closure over buffer.
GLBuffer(target, r) ==
  [target |-> target, buffer |-> r.buffer,
   data |-> IF "data" \in DOMAIN r THEN r.data ELSE Undefined,
   ptr |-> 0, usage |-> "STATIC_DRAW",
   dispose |-> [buffer |-> r.buffer]]

\* addVertexAttribs: lines 165-180, over Object.entries(attribs).
RECURSIVE addVertexAttribs(_, _, _)
addVertexAttribs(acc, entries, attribFn) ==
  IF entries = <<>> THEN acc
  ELSE LET e == Head(entries)
           r == addVertexAttrib(acc.ctx, e.target, e.name, attribFn) IN
       IF r.threw # None
         THEN [ctx |-> r.ctx, ret |-> <<>>, threw |-> r.threw,
               warned |-> acc.warned \o r.warned, calls |-> acc.calls \o r.calls]
         ELSE addVertexAttribs(
                [ctx |-> r.ctx, ret |-> Append(acc.ret, GLBuffer(e.target, r.ret)),
                 threw |-> None, warned |-> acc.warned \o r.warned,
                 calls |-> acc.calls \o r.calls],
                Tail(entries), attribFn)

\* A dispose closure that shares one buffer variable across the loop of
\* addVertexAttribs, and so deletes the buffer created last.
disposeBufferShared(ctx, d) ==
  gl_deleteBuffer(ctx, Handle("buffer", Len(ctx.buffers)))

\* The dispose closure of a buffer descriptor: lines 174-176.
disposeBuffer(ctx, d) == gl_deleteBuffer(ctx, d.dispose.buffer)

\* deleteAttribs: lines 253-257, over Object.values(attribs).
RECURSIVE deleteAttribs(_, _)
deleteAttribs(ctx, ds) ==
  IF ds = <<>> THEN ctx
  ELSE deleteAttribs(disposeBuffer(ctx, Head(ds)), Tail(ds))

\* bufferSubData: lines 259-262.  The call log keeps the data handed to
\* gl.bufferSubData.
bufferSubData(ctx, d, data) ==
  LET u == useBuffer(ctx, d.target, d.buffer) IN
  [ctx |-> SymbolDispose(u.ctx, u.disposable),
   calls |-> <<Native("bindBuffer", d.buffer), Native("bufferSubData", data)>>
             \o SymbolDisposeCalls(u.disposable)]

\* createTexture: lines 207-221; dispose is the closure over texture.
createTexture(tctx, target, uniform) ==
  LET texture == Handle("texture", Len(tctx.textures) + 1) IN
  [tctx |-> gl_bindTexture(gl_createTexture(tctx), target, texture),
   ret |-> [target |-> target, uniform |-> uniform, texture |-> texture,
            dispose |-> [texture |-> texture]]]

\* The dispose closure of a texture descriptor: lines 217-219.
disposeTexture(tctx, d) == gl_deleteTexture(tctx, d.dispose.texture)

\* deleteTextures: lines 223-227.
RECURSIVE deleteTextures(_, _)
deleteTextures(tctx, ds) ==
  IF ds = <<>> THEN tctx
  ELSE deleteTextures(disposeTexture(tctx, Head(ds)), Tail(ds))

\* activateTextures: lines 229-236, from index i of the loop on.
RECURSIVE activateTextures(_, _, _)
activateTextures(tctx, ds, i) ==
  IF ds = <<>> THEN tctx
  ELSE LET d == Head(ds) IN
       activateTextures(
         gl_uniform1i(gl_bindTexture(gl_activeTexture(tctx, i), d.target, d.texture),
                      d.uniform, i),
         Tail(ds), i + 1)

(* ------------------------------ actions ------------------------------- *)
Ctx == [buffers |-> buffers, bound |-> bound]
TCtx == [textures |-> textures, texBound |-> texBound,
         activeTexture |-> activeTexture, samplers |-> samplers]

\* The records a caller can pass: at most two entries with distinct names.
AttribEntry == [name : AttribNames, target : BufferTargets]
AttribRecords ==
  {<<e>> : e \in AttribEntry}
    \cup {<<e, f>> : <<e, f>> \in {p \in AttribEntry \X AttribEntry : p[1].name # p[2].name}}

\* The increasing sequence of the members of a set of indices.
RECURSIVE Ascending(_)
Ascending(S) ==
  IF S = {} THEN <<>>
  ELSE LET m == CHOOSE x \in S : \A y \in S : x <= y IN <<m>> \o Ascending(S \ {m})
Pick(seq, S) == LET ix == Ascending(S) IN [i \in 1..Len(ix) |-> seq[ix[i]]]
Bump(counts, S) == [i \in DOMAIN counts |-> IF i \in S THEN counts[i] + 1 ELSE counts[i]]
RECURSIVE Sum(_)
Sum(counts) == IF counts = <<>> THEN 0 ELSE Head(counts) + Sum(Tail(counts))
\* The dispose() invocations made so far, on buffer and texture descriptors.
Disposals == Sum(attribDisposals) + Sum(texDisposals)

\* The buffer handles a caller holds: those of its descriptors and those
\* addVertexAttrib has returned.
KnownBuffers == {attribs[i].buffer : i \in DOMAIN attribs} \cup returned
\* The Disposable a call adds to those the caller holds.
Obtained(disposable) == IF disposable = "undefined" THEN {} ELSE {disposable}
\* A Disposable as a returned value.
Disposable(disposable) ==
  IF disposable = "undefined" THEN Undefined ELSE Handle("Disposable", 0)

AddVertexAttrib ==
  /\ Len(buffers) < MaxBuffers
  /\ \E target \in BufferTargets, name \in AttribNames, attribFn \in AttribFns :
       LET r == addVertexAttrib(Ctx, target, name, attribFn) IN
       /\ buffers' = r.ctx.buffers
       /\ bound' = r.ctx.bound
       /\ op' = [name |-> "addVertexAttrib", target |-> target, aname |-> name]
       /\ ret' = IF r.threw = None THEN Object(r.ret) ELSE Undefined
       /\ threw' = r.threw
       /\ warned' = r.warned
       /\ calls' = r.calls
       /\ returned' = IF r.threw = None THEN returned \cup {r.ret.buffer}
                                        ELSE returned
  /\ UNCHANGED <<attribs, attribDisposals, disposables>>

BindVertexAttribBuffer ==
  \E target \in BufferTargets, buffer \in KnownBuffers, name \in AttribNames :
    LET r == bindVertexAttribBuffer(Ctx, target, buffer, name) IN
    /\ buffers' = r.ctx.buffers
    /\ bound' = r.ctx.bound
    /\ op' = [name |-> "bindVertexAttribBuffer", target |-> target,
              buffer |-> buffer, aname |-> name]
    /\ ret' = r.ret
    /\ threw' = r.threw
    /\ warned' = r.warned
    /\ calls' = r.calls
    /\ UNCHANGED <<attribs, attribDisposals, returned, disposables>>

AddVertexAttribs ==
  \E entries \in AttribRecords, attribFn \in EntryAttribFns :
    /\ Len(buffers) + Len(entries) <= MaxBuffers
    /\ LET r == addVertexAttribs(
                  [ctx |-> Ctx, ret |-> <<>>, threw |-> None,
                   warned |-> <<>>, calls |-> <<>>], entries,
                  attribFn) IN
       /\ buffers' = r.ctx.buffers
       /\ bound' = r.ctx.bound
       /\ attribs' = attribs \o r.ret
       /\ attribDisposals' = attribDisposals \o [i \in 1..Len(r.ret) |-> 0]
       /\ UNCHANGED <<returned, disposables>>
       /\ op' = [name |-> "addVertexAttribs", entries |-> entries]
       /\ ret' = IF r.threw = None THEN Record(r.ret) ELSE Undefined
       /\ threw' = r.threw
       /\ warned' = r.warned
       /\ calls' = r.calls

BufferSubData ==
  \E i \in DOMAIN attribs :
    LET r == bufferSubData(Ctx, attribs[i], Payload) IN
    /\ buffers' = r.ctx.buffers
    /\ bound' = r.ctx.bound
    /\ op' = [name |-> "bufferSubData", target |-> attribs[i].target,
              buffer |-> attribs[i].buffer]
    /\ ret' = Undefined
    /\ threw' = None
    /\ warned' = <<>>
    /\ calls' = r.calls
    /\ UNCHANGED <<attribs, attribDisposals, returned, disposables>>

SetBuffer ==
  \E i \in DOMAIN attribs :
    LET r == setBuffer(Ctx, attribs[i]) IN
    /\ buffers' = r.ctx.buffers
    /\ bound' = r.ctx.bound
    /\ op' = [name |-> "setBuffer", target |-> attribs[i].target,
              buffer |-> attribs[i].buffer]
    /\ ret' = Undefined
    /\ threw' = None
    /\ warned' = <<>>
    /\ calls' = r.calls
    /\ UNCHANGED <<attribs, attribDisposals, returned, disposables>>

UseBuffer ==
  \E target \in BufferTargets, buffer \in KnownBuffers :
    LET u == useBuffer(Ctx, target, buffer) IN
    /\ buffers' = u.ctx.buffers
    /\ bound' = u.ctx.bound
    /\ op' = [name |-> "useBuffer", target |-> target, buffer |-> buffer]
    /\ ret' = Disposable(u.disposable)
    /\ threw' = None
    /\ warned' = <<>>
    /\ calls' = <<Native("bindBuffer", buffer)>>
    /\ disposables' = disposables \cup Obtained(u.disposable)
    /\ UNCHANGED <<attribs, attribDisposals, returned>>

UseArrayBuffer ==
  \E buffer \in KnownBuffers :
    LET u == useArrayBuffer(Ctx, buffer) IN
    /\ buffers' = u.ctx.buffers
    /\ bound' = u.ctx.bound
    /\ op' = [name |-> "useArrayBuffer", target |-> "ARRAY_BUFFER",
              buffer |-> buffer]
    /\ ret' = Disposable(u.disposable)
    /\ threw' = None
    /\ warned' = <<>>
    /\ calls' = <<Native("bindBuffer", buffer)>>
    /\ disposables' = disposables \cup Obtained(u.disposable)
    /\ UNCHANGED <<attribs, attribDisposals, returned>>

\* The caller disposes a Disposable useBuffer or useArrayBuffer has returned
\* (the end of a `using` scope, or a direct call of [Symbol.dispose]), at
\* any later time and any number of times: lines 184-186.
DisposeUsing ==
  \E disposable \in disposables :
  /\ LET c == SymbolDispose(Ctx, disposable) IN
     /\ buffers' = c.buffers
     /\ bound' = c.bound
  /\ op' = [name |-> "Symbol.dispose", target |-> "ARRAY_BUFFER"]
  /\ ret' = Undefined
  /\ threw' = None
  /\ warned' = <<>>
  /\ calls' = SymbolDisposeCalls(disposable)
  /\ UNCHANGED <<attribs, attribDisposals, returned, disposables>>

DisposeAttrib ==
  \E i \in DOMAIN attribs :
    /\ Disposals < MaxDisposals
    /\ LET c == disposeBuffer(Ctx, attribs[i]) IN
       /\ buffers' = c.buffers
       /\ bound' = c.bound
    /\ attribDisposals' = Bump(attribDisposals, {i})
    /\ UNCHANGED <<returned, disposables>>
    /\ op' = [name |-> "dispose", kind |-> "buffer", index |-> i]
    /\ ret' = Undefined
    /\ threw' = None
    /\ warned' = <<>>
    /\ calls' = <<>>
    /\ UNCHANGED attribs

DeleteAttribs ==
  \E S \in SUBSET (DOMAIN attribs) :
    /\ S # {}
    /\ Disposals + Cardinality(S) <= MaxDisposals
    /\ LET c == deleteAttribs(Ctx, Pick(attribs, S)) IN
       /\ buffers' = c.buffers
       /\ bound' = c.bound
    /\ attribDisposals' = Bump(attribDisposals, S)
    /\ UNCHANGED <<returned, disposables>>
    /\ op' = [name |-> "deleteAttribs", indices |-> S]
    /\ ret' = Undefined
    /\ threw' = None
    /\ warned' = <<>>
    /\ calls' = <<>>
    /\ UNCHANGED attribs

CreateTexture ==
  /\ Len(textures) < MaxTextures
  /\ \E target \in TextureTargets,
        uniform \in {gl_getUniformLocation(currentProgram, n) : n \in UniformNames} :
       LET r == createTexture(TCtx, target, uniform) IN
       /\ textures' = r.tctx.textures
       /\ texBound' = r.tctx.texBound
       /\ texDescs' = Append(texDescs, r.ret)
       /\ texDisposals' = Append(texDisposals, 0)
       /\ op' = [name |-> "createTexture", target |-> target]
       /\ ret' = Object(r.ret)
  /\ threw' = None
  /\ warned' = <<>>
  /\ calls' = <<>>
  /\ UNCHANGED <<activeTexture, samplers>>

ActivateTextures ==
  \E S \in SUBSET (DOMAIN texDescs) :
    LET c == activateTextures(TCtx, Pick(texDescs, S), 0) IN
    /\ texBound' = c.texBound
    /\ activeTexture' = c.activeTexture
    /\ samplers' = c.samplers
    /\ op' = [name |-> "activateTextures", indices |-> S]
    /\ ret' = Undefined
    /\ threw' = None
    /\ warned' = <<>>
    /\ calls' = <<>>
    /\ UNCHANGED <<textures, texDescs, texDisposals>>

DisposeTexture ==
  \E i \in DOMAIN texDescs :
    /\ Disposals < MaxDisposals
    /\ LET c == disposeTexture(TCtx, texDescs[i]) IN
       /\ textures' = c.textures
       /\ texBound' = c.texBound
    /\ texDisposals' = Bump(texDisposals, {i})
    /\ op' = [name |-> "dispose", kind |-> "texture", index |-> i]
    /\ ret' = Undefined
    /\ threw' = None
    /\ warned' = <<>>
    /\ calls' = <<>>
    /\ UNCHANGED <<activeTexture, samplers, texDescs>>

DeleteTextures ==
  \E S \in SUBSET (DOMAIN texDescs) :
    /\ S # {}
    /\ Disposals + Cardinality(S) <= MaxDisposals
    /\ LET c == deleteTextures(TCtx, Pick(texDescs, S)) IN
       /\ textures' = c.textures
       /\ texBound' = c.texBound
    /\ texDisposals' = Bump(texDisposals, S)
    /\ op' = [name |-> "deleteTextures", indices |-> S]
    /\ ret' = Undefined
    /\ threw' = None
    /\ warned' = <<>>
    /\ calls' = <<>>
    /\ UNCHANGED <<activeTexture, samplers, texDescs>>

(* ===================== attribute range write cache =================== *)
MaxBegin == 1
MaxRangeCalls == 3
PRIME == 31

VARIABLES
  memoized,         \* the WeakMap: descriptor -> (hash -> view)
  nViews,           \* typed array views allocated by subarray so far
  served,           \* per (descriptor, begin, end) asked for: the first view returned
  nRangeCalls       \* writeAttribRange calls made so far

rangeVars == <<memoized, nViews, served, nRangeCalls>>

\* The element counts a caller asks for: short ranges and the range of a
\* batch of 33 elements.
RangeCounts == {1, 2, 33}
Ranges ==
  {[begin |-> b, end |-> b + c, count |-> c] : b \in 0..MaxBegin, c \in RangeCounts}

\* x << n on 32-bit integers (0 < n < 32): the low 32 - n bits of x move up
\* and the result is read as a signed 32-bit integer.
ShiftLeft(x, n) ==
  LET m == x % (2 ^ (32 - n)) IN
  IF m >= 2 ^ (31 - n) THEN (m - 2 ^ (32 - n)) * (2 ^ n) ELSE m * (2 ^ n)

\* TypedArray.prototype.subarray(begin, end) on a payload of len elements:
\* negative offsets count from the end and both are clamped to the payload.
Clamp(len, k) ==
  IF k < 0 THEN (IF len + k < 0 THEN 0 ELSE len + k)
  ELSE (IF k < len THEN k ELSE len)
subarray(data, id, begin, end) ==
  LET from == Clamp(data[2], begin)
      to == Clamp(data[2], end) IN
  [id |-> id, begin |-> from, end |-> IF to < from THEN from ELSE to]

EmptyMap == [h \in {} |-> Null]

\* The offsets getDataRange derives from a range: lines 267-270.
RangeBegin(r) == ShiftLeft(r.begin, 2)
RangeEnd(r) == ShiftLeft(r.begin, 2) + ShiftLeft(r.count, 2)
\* The cache key: lines 272-273.
RangeHash(r) == RangeBegin(r) * PRIME + RangeEnd(r)

\* A getDataRange that looks the hash up in a map made anew on every call.
getDataRangeFreshMap(memo, views, glBuffer, key, r) ==
  IF glBuffer.data = Undefined
    THEN [memoized |-> memo @@ (key :> EmptyMap), nViews |-> views,
          ret |-> Undefined, threw |-> "TypeError", calls |-> <<>>]
    ELSE LET view == subarray(glBuffer.data, views + 1, RangeBegin(r), RangeEnd(r)) IN
         [memoized |-> (key :> (RangeHash(r) :> view)) @@ memo,
          nViews |-> views + 1, ret |-> view, threw |-> None,
          calls |-> <<Native("subarray", glBuffer.buffer)>>]

\* getDataRange: lines 265-279, for the descriptor glBuffer, whose identity
\* in the WeakMap is key.
getDataRange(memo, views, glBuffer, key, r) ==
  LET begin == RangeBegin(r)
      end == RangeEnd(r)
      hash == RangeHash(r)
      mem == IF key \in DOMAIN memo THEN memo ELSE memo @@ (key :> EmptyMap) IN
  IF hash \in DOMAIN mem[key]
    THEN [memoized |-> mem, nViews |-> views, ret |-> mem[key][hash],
          threw |-> None, calls |-> <<>>]
  ELSE IF glBuffer.data = Undefined
    THEN [memoized |-> mem, nViews |-> views, ret |-> Undefined,
          threw |-> "TypeError", calls |-> <<>>]
  ELSE LET view == subarray(glBuffer.data, views + 1, begin, end) IN
       [memoized |-> [mem EXCEPT ![key] = @ @@ (hash :> view)],
        nViews |-> views + 1, ret |-> view, threw |-> None,
        calls |-> <<Native("subarray", glBuffer.buffer)>>]

RangeKey(i, r) == <<i, RangeBegin(r), RangeEnd(r)>>
Serve(i, r, g) ==
  IF g.threw # None \/ RangeKey(i, r) \in DOMAIN served
    THEN served
    ELSE served @@ (RangeKey(i, r) :> g.ret)

\* writeAttribRange: lines 281-283.  getDataRange is evaluated first, and an
\* exception in it leaves bufferSubData uncalled; nothing is returned.
WriteAttribRange ==
  /\ nRangeCalls < MaxRangeCalls
  /\ \E i \in DOMAIN attribs, r \in Ranges :
       LET g == getDataRange(memoized, nViews, attribs[i], i, r)
           w == bufferSubData(Ctx, attribs[i], g.ret) IN
       /\ memoized' = g.memoized
       /\ nViews' = g.nViews
       /\ served' = Serve(i, r, g)
       /\ op' = [name |-> "writeAttribRange", attrib |-> i, range |-> r,
                 repeat |-> RangeKey(i, r) \in DOMAIN served]
       /\ ret' = Undefined
       /\ threw' = g.threw
       /\ buffers' = IF g.threw = None THEN w.ctx.buffers ELSE buffers
       /\ bound' = IF g.threw = None THEN w.ctx.bound ELSE bound
       /\ calls' = IF g.threw = None THEN g.calls \o w.calls ELSE g.calls
  /\ nRangeCalls' = nRangeCalls + 1
  /\ warned' = <<>>
  /\ UNCHANGED <<attribs, attribDisposals, returned, disposables>>

(* ========================== specifications =========================== *)
vars == <<bindVars, shaderVars, bufferVars, textureVars, rangeVars, obsVars>>

Init ==
  /\ currentProgram = Undefined
  /\ currentVao = Undefined
  /\ glProgram = Null
  /\ glVao = Null
  /\ programs = <<>>
  /\ nVaos = 0
  /\ shaders = <<>>
  /\ held = {}
  /\ released = {}
  /\ direct = {}
  /\ singles = {}
  /\ buffers = <<>>
  /\ bound = [t \in BufferTargets |-> Null]
  /\ attribs = <<>>
  /\ attribDisposals = <<>>
  /\ returned = {}
  /\ disposables = {}
  /\ textures = <<>>
  /\ texBound = [u \in TextureUnits |-> [t \in TextureTargets |-> Null]]
  /\ activeTexture = 0
  /\ samplers = EmptyMap
  /\ texDescs = <<>>
  /\ texDisposals = <<>>
  /\ memoized = EmptyMap
  /\ nViews = 0
  /\ served = EmptyMap
  /\ nRangeCalls = 0
  /\ op = [name |-> "initGL"]
  /\ ret = Undefined
  /\ threw = None
  /\ warned = <<>>
  /\ calls = <<>>

\* Program and vertex array tracking, uniform lookup.
NextBind ==
  \/ CreateProgram /\ UNCHANGED <<shaderVars, bufferVars, textureVars, rangeVars>>
  \/ UseProgram /\ UNCHANGED <<shaderVars, bufferVars, textureVars, rangeVars>>
  \/ UseVao /\ UNCHANGED <<shaderVars, bufferVars, textureVars, rangeVars>>
  \/ Use /\ UNCHANGED <<shaderVars, bufferVars, textureVars, rangeVars>>
  \/ CreateVertexArray /\ UNCHANGED <<shaderVars, bufferVars, textureVars, rangeVars>>
  \/ Uniforms /\ UNCHANGED <<shaderVars, bufferVars, textureVars, rangeVars>>

SpecBind == Init /\ [][NextBind]_vars

\* Shader pairs.
NextShaders ==
  \/ CreateShader /\ UNCHANGED <<bindVars, bufferVars, textureVars, rangeVars>>
  \/ CreateShaders /\ UNCHANGED <<bindVars, bufferVars, textureVars, rangeVars>>
  \/ DeleteShaders /\ UNCHANGED <<bindVars, bufferVars, textureVars, rangeVars>>

SpecShaders == Init /\ [][NextShaders]_vars

\* Vertex attribute buffers and their bindings, with at most
\* MaxAttribPrograms programs created.
NextAttrib ==
  \/ SetBuffer /\ UNCHANGED <<bindVars, shaderVars, textureVars, rangeVars>>
  \/ UseBuffer /\ UNCHANGED <<bindVars, shaderVars, textureVars, rangeVars>>
  \/ UseArrayBuffer /\ UNCHANGED <<bindVars, shaderVars, textureVars, rangeVars>>
  \/ DisposeUsing /\ UNCHANGED <<bindVars, shaderVars, textureVars, rangeVars>>
  \/ Len(programs) < MaxAttribPrograms /\ CreateProgram
       /\ UNCHANGED <<shaderVars, bufferVars, textureVars, rangeVars>>
  \/ AddVertexAttrib /\ UNCHANGED <<bindVars, shaderVars, textureVars, rangeVars>>
  \/ AddVertexAttribs /\ UNCHANGED <<bindVars, shaderVars, textureVars, rangeVars>>
  \/ BindVertexAttribBuffer /\ UNCHANGED <<bindVars, shaderVars, textureVars, rangeVars>>
  \/ BufferSubData /\ UNCHANGED <<bindVars, shaderVars, textureVars, rangeVars>>

SpecAttrib == Init /\ [][NextAttrib]_vars

\* Creation and disposal of buffer and texture descriptors, from the state
\* a caller is in after its first createProgram, of a program that linked
\* and declares both uniforms and both attributes.
InitProgram ==
  \E iface \in {i \in ProgramInterfaces : i.uniforms = UniformNames} :
    /\ currentProgram = Handle("program", 1)
    /\ currentVao = Undefined
    /\ glProgram = gl_useProgram(<<iface>>, Null, Handle("program", 1))
    /\ glVao = Null
    /\ programs = <<iface>>
    /\ nVaos = 0
    /\ shaders = <<>>
    /\ held = {}
    /\ released = {}
    /\ direct = {}
    /\ singles = {}
    /\ buffers = <<>>
    /\ bound = [t \in BufferTargets |-> Null]
    /\ attribs = <<>>
    /\ attribDisposals = <<>>
    /\ returned = {}
    /\ disposables = {}
    /\ textures = <<>>
    /\ texBound = [u \in TextureUnits |-> [t \in TextureTargets |-> Null]]
    /\ activeTexture = 0
    /\ samplers = EmptyMap
    /\ texDescs = <<>>
    /\ texDisposals = <<>>
    /\ memoized = EmptyMap
    /\ nViews = 0
    /\ served = EmptyMap
    /\ nRangeCalls = 0
    /\ op = [name |-> "createProgram", program |-> Handle("program", 1)]
    /\ ret = Handle("program", 1)
    /\ threw = None
    /\ warned = <<>>
    /\ calls = <<Native("createProgram", Handle("program", 1)),
                 Native("linkProgram", Handle("program", 1)),
                 Native("useProgram", Handle("program", 1))>>

NextDispose ==
  \/ AddVertexAttribs /\ UNCHANGED <<bindVars, shaderVars, textureVars, rangeVars>>
  \/ DisposeAttrib /\ UNCHANGED <<bindVars, shaderVars, textureVars, rangeVars>>
  \/ DeleteAttribs /\ UNCHANGED <<bindVars, shaderVars, textureVars, rangeVars>>
  \/ CreateTexture /\ UNCHANGED <<bindVars, shaderVars, bufferVars, rangeVars>>
  \/ DisposeTexture /\ UNCHANGED <<bindVars, shaderVars, bufferVars, rangeVars>>
  \/ DeleteTextures /\ UNCHANGED <<bindVars, shaderVars, bufferVars, rangeVars>>
  \/ ActivateTextures /\ UNCHANGED <<bindVars, shaderVars, bufferVars, rangeVars>>

SpecDispose == InitProgram /\ [][NextDispose]_vars

\* The range cache, from the state a caller is in after createProgram and
\* addVertexAttribs({a_pos: [ARRAY_BUFFER, ...], a_uv: [ELEMENT_ARRAY_BUFFER, ...]}).
RangeSetup ==
  << [name |-> "a_pos", target |-> "ARRAY_BUFFER"],
     [name |-> "a_uv", target |-> "ELEMENT_ARRAY_BUFFER"] >>

InitRange ==
  \E iface \in ProgramInterfaces :
    /\ currentProgram = Handle("program", 1)
    /\ currentVao = Undefined
    /\ glProgram = gl_useProgram(<<iface>>, Null, Handle("program", 1))
    /\ glVao = Null
    /\ programs = <<iface>>
    /\ nVaos = 0
    /\ shaders = <<>>
    /\ held = {}
    /\ released = {}
    /\ direct = {}
    /\ singles = {}
    /\ LET r == addVertexAttribs(
                  [ctx |-> [buffers |-> <<>>, bound |-> [t \in BufferTargets |-> Null]],
                   ret |-> <<>>, threw |-> None, warned |-> <<>>, calls |-> <<>>],
                  RangeSetup, attrib(2, Payload, 0)) IN
       /\ buffers = r.ctx.buffers
       /\ bound = r.ctx.bound
       /\ attribs = r.ret
       /\ attribDisposals = [i \in 1..Len(r.ret) |-> 0]
       /\ returned = {}
       /\ disposables = {}
       /\ op = [name |-> "addVertexAttribs", entries |-> RangeSetup]
       /\ ret = IF r.threw = None THEN Record(r.ret) ELSE Undefined
       /\ threw = r.threw
       /\ warned = r.warned
       /\ calls = r.calls
    /\ textures = <<>>
    /\ texBound = [u \in TextureUnits |-> [t \in TextureTargets |-> Null]]
    /\ activeTexture = 0
    /\ samplers = EmptyMap
    /\ texDescs = <<>>
    /\ texDisposals = <<>>
    /\ memoized = EmptyMap
    /\ nViews = 0
    /\ served = EmptyMap
    /\ nRangeCalls = 0

NextRange ==
  \/ WriteAttribRange /\ UNCHANGED <<bindVars, shaderVars, textureVars>>

SpecRange == InitRange /\ [][NextRange]_vars

(* ============================== claims ================================ *)
\* The data the last call handed to gl.bufferSubData.
Written ==
  calls[CHOOSE k \in 1..Len(calls) : calls[k].fn = "bufferSubData"].arg
AttribMissing(name) ==
  currentProgram # Undefined /\ gl_getAttribLocation(currentProgram, name) = -1

\* C1 (as amended): every dispose() of a buffer or texture descriptor,
\* called directly or through deleteAttribs / deleteTextures, issues exactly
\* one native delete call, aimed at the descriptor's own handle: a handle
\* has received as many delete calls as its descriptor was disposed, and
\* it is deleted exactly when its descriptor was disposed at least once.
C1_DeletesFollowDisposals ==
  /\ \A i \in DOMAIN attribs :
       LET b == buffers[attribs[i].buffer[2]] IN
       /\ b.deletes = attribDisposals[i]
       /\ b.deleted <=> attribDisposals[i] > 0
  /\ \A i \in DOMAIN texDescs :
       LET t == textures[texDescs[i].texture[2]] IN
       /\ t.deletes = texDisposals[i]
       /\ t.deleted <=> texDisposals[i] > 0

\* C1 witness: one buffer descriptor disposed once next to an undisposed
\* one, and a texture descriptor disposed.
C1_Witness ==
  /\ \E i, j \in DOMAIN attribs : attribDisposals[i] = 1 /\ attribDisposals[j] = 0
  /\ \E i \in DOMAIN texDescs : texDisposals[i] >= 1

\* C1 as stated: a disposed handle has received exactly one native delete
\* call, never more, whatever the sequence of dispose calls.
C1_ExactlyOneDelete ==
  /\ \A i \in DOMAIN attribs :
       attribDisposals[i] > 0 => buffers[attribs[i].buffer[2]].deletes = 1
  /\ \A i \in DOMAIN texDescs :
       texDisposals[i] > 0 => textures[texDescs[i].texture[2]].deletes = 1

\* C2: a writeAttribRange call for offsets (begin, end) that the same
\* descriptor was written with before writes the very view object the first
\* such call got from getDataRange, and calls subarray for no new one.
C2_SameRangeReusesView ==
  (op.name = "writeAttribRange" /\ op.repeat) =>
    /\ threw = None
    /\ "subarray" \notin NativeFns(calls)
    /\ "bufferSubData" \in NativeFns(calls)
    /\ Written = served[RangeKey(op.attrib, op.range)]

\* C2 witness: the first view is returned again after another range of the
\* same descriptor was given a view of its own.
C2_Witness ==
  /\ op.name = "writeAttribRange"
  /\ op.repeat
  /\ threw = None
  /\ Written.id = 1
  /\ Cardinality(DOMAIN memoized[op.attrib]) >= 2

\* C3: reading uniforms[name] for a name that is not an active uniform of
\* the active program does not throw, warns, returns the null location and
\* leaves the tracked program and the tracked vertex array as they were.
C3_MissingUniformIsSoft ==
  [][ (/\ op'.name = "uniforms"
       /\ currentProgram # Undefined
       /\ op'.uname \notin programs[currentProgram[2]].uniforms)
      => /\ threw' = None
         /\ ret' = Null
         /\ warned' # <<>>
         /\ currentProgram' = currentProgram
         /\ currentVao' = currentVao ]_vars

\* C3 witness: a missing uniform was looked up with a program and a vertex
\* array in use.
C3_Witness ==
  /\ op.name = "uniforms"
  /\ currentProgram # Undefined
  /\ currentVao # Undefined
  /\ op.uname \notin programs[currentProgram[2]].uniforms
  /\ ret = Null

\* C4: createShaders throws the compiler's diagnostic of the first source
\* that does not compile and returns nothing; when both sources compile it
\* returns a live vertex shader handle and a live fragment shader handle.
C4_CreateShadersResult ==
  op.name = "createShaders" =>
    LET vlog == gl_getShaderInfoLog("VERTEX_SHADER", Trim(op.src.vertex))
        flog == gl_getShaderInfoLog("FRAGMENT_SHADER", Trim(op.src.fragment)) IN
    IF vlog # "" THEN threw = vlog /\ ret = Undefined
    ELSE IF flog # "" THEN threw = flog /\ ret = Undefined
    ELSE /\ threw = None
         /\ ret = Object([vertex |-> Handle("shader", op.before + 1),
                          fragment |-> Handle("shader", op.before + 2)])
         /\ {ret[2].vertex, ret[2].fragment} \subseteq LiveShaders
         /\ shaders[ret[2].vertex[2]].type = "VERTEX_SHADER"
         /\ shaders[ret[2].fragment[2]].type = "FRAGMENT_SHADER"

\* C4 witness: a createShaders call failed on its fragment source after an
\* earlier call had succeeded.
C4_Witness ==
  /\ op.name = "createShaders"
  /\ held # {}
  /\ threw = "ERROR: gl_Position undeclared"

\* C5: for an attribute name the current program does not have,
\* bindVertexAttribBuffer warns, returns undefined and issues none of
\* bindBuffer, bindAttribLocation, enableVertexAttribArray; addVertexAttrib
\* does not call the attribute function and returns the buffer handle
\* alone; neither throws.
C5_MissingAttribIsSkipped ==
  /\ (op.name = "bindVertexAttribBuffer" /\ AttribMissing(op.aname)) =>
       /\ threw = None
       /\ warned # <<>>
       /\ NativeFns(calls) \cap
            {"bindBuffer", "bindAttribLocation", "enableVertexAttribArray"} = {}
       /\ ret = Undefined
  /\ (op.name = "addVertexAttrib" /\ AttribMissing(op.aname)) =>
       /\ threw = None
       /\ warned # <<>>
       /\ "attribFn" \notin NativeFns(calls)
       /\ ret = Object([buffer |-> Handle("buffer", Len(buffers))])

\* C5 witness: addVertexAttrib was called with a name the current program
\* does not have.
C5_Witness ==
  /\ op.name = "addVertexAttrib"
  /\ AttribMissing(op.aname)
  /\ ret = Object([buffer |-> Handle("buffer", Len(buffers))])

\* C6 as stated: when useVao(v) or use(p, v) has returned, v is the vertex
\* array bound in the context.
C6_UsedVaoIsBound ==
  op.name \in {"useVao", "use"} => glVao = op.vao

\* C7 as stated: the view getDataRange returns, which writeAttribRange
\* hands to gl.bufferSubData, has the requested bounds,
\* [begin * 4, begin * 4 + count * 4).
C7_ViewHasRequestedBounds ==
  (op.name = "writeAttribRange" /\ threw = None) =>
    /\ Written.begin = op.range.begin * 4
    /\ Written.end = op.range.begin * 4 + op.range.count * 4

\* C8 as stated: the tracked current program is the program active in the
\* context, and after createProgram, useProgram(p) or use(p, v) has
\* returned, p is that program.
C8_TrackedProgramIsActive ==
  /\ currentProgram = Undefined => glProgram = Null
  /\ currentProgram # Undefined => glProgram = currentProgram
  /\ op.name \in {"createProgram", "useProgram", "use"} =>
       currentProgram = op.program /\ glProgram = op.program

\* C9 as stated: the live shader handles, a caller's own createShader
\* handles aside, are exactly the handles of the pairs createShaders
\* returned to a caller and not yet given to deleteShaders.
C9_LiveShadersAreHeldPairs ==
  LiveShaders \ direct = UNION {{p.vertex, p.fragment} : p \in held \ released}

\* C10 as stated: when addVertexAttrib or bufferSubData has returned, the
\* binding of the buffer target it was given is null.
C10_TargetUnboundOnReturn ==
  (op.name \in {"addVertexAttrib", "bufferSubData"} /\ threw = None) =>
    bound[op.target] = Null
====
